---- MODULE Spec2Model ----
(***************************************************************************)
(* A model of hour-calc (CalendarHourCalc): the report pipeline of         *)
(* src/main.rs (marker extraction, timestamp normalisation and parsing,    *)
(* event summaries, flattening, month/year filters, day sort, total),      *)
(* the duration formatter, and the calendar-source configuration of        *)
(* src/config.rs with the ics_add / ics_remove commands.                   *)
(*                                                                         *)
(* Text is modelled as a sequence of one-character strings, so that        *)
(* formatting and parsing are computed character by character.             *)
(***************************************************************************)
EXTENDS Bags, Integers, Sequences, FiniteSets, TLC

VARIABLES
    store,      \* config.json: absent, or the bytes it holds
    orphans,    \* the bytes of the files removed while a command holds them open
    inflight,   \* the bag of the commands under way: place, file handle, bytes
                \* read, list
    overlaps,   \* how many commands have started while another was under way
    cmd,        \* the command that returned with the last step, if one did
    config,     \* that command's Config value (Config::open or default, as changed)
    pc,         \* "idle" before any command, "done" when that command returned
                \* with the step, "run" otherwise
    ret,        \* that command's result: "none" (not returned), "Ok" or the error
    stored,     \* whether that command has entered Config::store
    ical_body,  \* what the configured URL serves: a sequence of calendars
    out,        \* what the last report handed to the renderer
    secs,       \* fmt_duration: the argument
    formatted,  \* fmt_duration: the returned text (NotRun before the call)
    input,      \* hypentate_dttime: the argument
    buf         \* hypentate_dttime: the returned text (NotRun before the call)

proc_vars == <<store, orphans, inflight, overlaps, cmd, config, pc, ret, stored>>

text_vars == <<secs, formatted, input, buf>>

vars == <<proc_vars, ical_body, out, text_vars>>

NotRun == <<"?">>

(***************************************************************************)
(* Text helpers                                                            *)
(***************************************************************************)
DigitChars == <<"0", "1", "2", "3", "4", "5", "6", "7", "8", "9">>

IsDigit(c) == \E d \in 1..10 : DigitChars[d] = c

DigitVal(c) == (CHOOSE d \in 1..10 : DigitChars[d] = c) - 1

\* The decimal text of a natural number, as "{}" prints it.
RECURSIVE DecNat(_)
DecNat(n) == IF n < 10 THEN <<DigitChars[n + 1]>>
             ELSE DecNat(n \div 10) \o <<DigitChars[(n % 10) + 1]>>

\* "{}" of a signed integer.
Dec(n) == IF n < 0 THEN <<"-">> \o DecNat(-n) ELSE DecNat(n)

\* "{:02}" of a signed integer: the sign counts towards the width of 2,
\* zeros fill after the sign.
Pad2(n) == IF n < 0 THEN <<"-">> \o DecNat(-n)
           ELSE IF n < 10 THEN <<"0">> \o DecNat(n)
           ELSE DecNat(n)

\* The number written by a sequence of digits.
RECURSIVE NatOf(_)
NatOf(s) == IF s = <<>> THEN 0
            ELSE NatOf(SubSeq(s, 1, Len(s) - 1)) * 10 + DigitVal(s[Len(s)])

AllDigits(s) == \A i \in 1..Len(s) : IsDigit(s[i])

(***************************************************************************)
(* Rust's integer division and remainder truncate toward zero; TLA+'s      *)
(* \div and % round toward minus infinity.                                 *)
(***************************************************************************)
TruncDiv(a, b) == IF a >= 0 THEN a \div b ELSE -((-a) \div b)

TruncRem(a, b) == a - b * TruncDiv(a, b)

(***************************************************************************)
(* fmt_duration                                                            *)
(***************************************************************************)
fmt_parts_floor(s) == <<(s \div 60) \div 60, (s \div 60) % 60, s % 60>>

\* The three numbers fmt_duration prints: hours, minutes, seconds.
fmt_parts(s) ==
    <<TruncDiv(TruncDiv(s, 60), 60), TruncRem(TruncDiv(s, 60), 60), TruncRem(s, 60)>>

fmt_duration(s) ==
    LET p == fmt_parts(s)
    IN  Pad2(p[1]) \o <<":">> \o Pad2(p[2]) \o <<":">> \o Pad2(p[3])

(***************************************************************************)
(* hypentate_dttime: the loop over input.chars().enumerate(); idx counts   *)
(* from 0, the sequence from 1.                                            *)
(***************************************************************************)
HyphenAfter == {3, 5}

ColonAfter == {10, 12}

RECURSIVE hyp_loop_offbyone(_, _, _)
hyp_loop_offbyone(s, idx, acc) ==
    IF idx >= Len(s) THEN acc
    ELSE hyp_loop_offbyone(s, idx + 1,
            acc \o <<s[idx + 1]>>
                \o (IF idx + 1 \in HyphenAfter THEN <<"-">> ELSE <<>>)
                \o (IF idx + 1 \in ColonAfter THEN <<":">> ELSE <<>>))

RECURSIVE hyp_loop(_, _, _)
hyp_loop(s, idx, acc) ==
    IF idx >= Len(s) THEN acc
    ELSE hyp_loop(s, idx + 1,
            acc \o <<s[idx + 1]>>
                \o (IF idx \in HyphenAfter THEN <<"-">> ELSE <<>>)
                \o (IF idx \in ColonAfter THEN <<":">> ELSE <<>>))

hypentate_dttime(s) == hyp_loop(s, 0, <<>>)

(***************************************************************************)
(* DateTime::parse_from_rfc3339 (chrono) on the text hypentate_dttime      *)
(* returns: YYYY-MM-DD, one of T, t or a blank, HH:MM:SS, an optional      *)
(* fraction (a point and at least one digit), then Z, z or a numeric       *)
(* offset sign HH:MM, and nothing behind it.  A seconds field of 60 is a   *)
(* leap second: second 59 with one more second in the sub-second part.     *)
(* The result keeps the fields as written (the local date and time of      *)
(* day), the sub-second part in nanoseconds and the offset in seconds.     *)
(***************************************************************************)
IsLeap(y) == (y % 4 = 0 /\ y % 100 # 0) \/ y % 400 = 0

DaysInMonth(y, m) ==
    IF m = 2 THEN (IF IsLeap(y) THEN 29 ELSE 28)
    ELSE IF m \in {4, 6, 9, 11} THEN 30 ELSE 31

ParseError == [ok |-> FALSE, year |-> 0, month |-> 0, day |-> 0,
               hour |-> 0, minute |-> 0, second |-> 0, nano |-> 0, offset |-> 0]

\* full-date, separator and partial-time without the fraction: 19 characters.
Rfc3339Shape(s) ==
    /\ Len(s) >= 19
    /\ AllDigits(SubSeq(s, 1, 4)) /\ s[5] = "-"
    /\ AllDigits(SubSeq(s, 6, 7)) /\ s[8] = "-"
    /\ AllDigits(SubSeq(s, 9, 10)) /\ s[11] \in {"T", "t", " "}
    /\ AllDigits(SubSeq(s, 12, 13)) /\ s[14] = ":"
    /\ AllDigits(SubSeq(s, 15, 16)) /\ s[17] = ":"
    /\ AllDigits(SubSeq(s, 18, 19))

\* The number of digits s begins with.
RECURSIVE LeadingDigits(_)
LeadingDigits(s) ==
    IF s = <<>> \/ ~IsDigit(Head(s)) THEN 0 ELSE 1 + LeadingDigits(Tail(s))

RECURSIVE Pow10(_)
Pow10(n) == IF n = 0 THEN 1 ELSE 10 * Pow10(n - 1)

NanosPerSecond == Pow10(9)

\* The optional fraction at the head of s: up to nine digits count, the
\* digits behind them are read and dropped.
scan_fraction(s) ==
    IF s = <<>> \/ Head(s) # "." THEN [ok |-> TRUE, nano |-> 0, rest |-> s]
    ELSE LET k == LeadingDigits(Tail(s))
             n == IF k < 9 THEN k ELSE 9
         IN  IF k = 0 THEN [ok |-> FALSE, nano |-> 0, rest |-> s]
             ELSE [ok   |-> TRUE,
                   nano |-> NatOf(SubSeq(s, 2, n + 1)) * Pow10(9 - n),
                   rest |-> SubSeq(s, k + 2, Len(s))]

\* The signs of a numeric offset; "U+2212" stands for the one character
\* MINUS SIGN, which chrono reads as "-".
OffsetSigns == {"+", "-", "U+2212"}

MaxOffset == (23 * 60 + 59) * 60

\* The offset written by a sign, two digits of hours and two of minutes.
offset_of(sign, hours, minutes) ==
    IF minutes <= 59 /\ hours * 3600 + minutes * 60 <= MaxOffset
    THEN [ok |-> TRUE,
          offset |-> IF sign = "+" THEN hours * 3600 + minutes * 60
                     ELSE -(hours * 3600 + minutes * 60)]
    ELSE [ok |-> FALSE, offset |-> 0]

\* The offset, which must be all that is left of the text.
scan_offset(s) ==
    IF s = <<"Z">> \/ s = <<"z">> THEN [ok |-> TRUE, offset |-> 0]
    ELSE IF /\ Len(s) = 6
            /\ s[1] \in OffsetSigns
            /\ AllDigits(SubSeq(s, 2, 3)) /\ s[4] = ":"
            /\ AllDigits(SubSeq(s, 5, 6))
         THEN offset_of(s[1], NatOf(SubSeq(s, 2, 3)), NatOf(SubSeq(s, 5, 6)))
         ELSE [ok |-> FALSE, offset |-> 0]

\* The fields read, checked and put together.
parsed_fields(y, mo, d, h, mi, se, frac, off) ==
    IF /\ frac.ok /\ off.ok
       /\ mo \in 1..12
       /\ d \in 1..DaysInMonth(y, mo)
       /\ h \in 0..23 /\ mi \in 0..59 /\ se \in 0..60
    THEN [ok |-> TRUE, year |-> y, month |-> mo, day |-> d,
          hour |-> h, minute |-> mi,
          second |-> IF se = 60 THEN 59 ELSE se,
          nano   |-> IF se = 60 THEN frac.nano + NanosPerSecond ELSE frac.nano,
          offset |-> off.offset]
    ELSE ParseError

\* What stands behind the seconds: the fraction, then the offset.
parse_tail(s, frac) ==
    parsed_fields(NatOf(SubSeq(s, 1, 4)), NatOf(SubSeq(s, 6, 7)),
                  NatOf(SubSeq(s, 9, 10)), NatOf(SubSeq(s, 12, 13)),
                  NatOf(SubSeq(s, 15, 16)), NatOf(SubSeq(s, 18, 19)),
                  frac, scan_offset(frac.rest))

parse_from_rfc3339(s) ==
    IF ~Rfc3339Shape(s) THEN ParseError
    ELSE parse_tail(s, scan_fraction(SubSeq(s, 20, Len(s))))

\* Days since 1970-01-01 of a calendar date (proleptic Gregorian).
DaysFromCivil(y, m, d) ==
    LET yy  == IF m <= 2 THEN y - 1 ELSE y
        era == yy \div 400
        yoe == yy - era * 400
        mp  == IF m > 2 THEN m - 3 ELSE m + 9
        doy == (153 * mp + 2) \div 5 + d - 1
        doe == yoe * 365 + yoe \div 4 - yoe \div 100 + doy
    IN  era * 146097 + doe - 719468

SecondOfDay(t) == t.hour * 3600 + t.minute * 60 + t.second

SecondsPerDay == 24 * 3600

\* The instant in UTC: the day, the second of that day, the sub-second part.
utc(t) ==
    LET total == SecondOfDay(t) - t.offset
    IN  [day  |-> DaysFromCivil(t.year, t.month, t.day) + total \div SecondsPerDay,
         secs |-> total % SecondsPerDay,
         frac |-> t.nano]

\* end - start on two instants in UTC, as whole seconds and a sub-second
\* part that is not negative; a leap second between the two times of day
\* is counted.
signed_duration_since(e, s) ==
    LET adj  == IF e.secs > s.secs /\ s.frac >= NanosPerSecond THEN 1
                ELSE IF e.secs < s.secs /\ e.frac >= NanosPerSecond THEN -1
                ELSE 0
        frac == e.frac - s.frac
    IN  [secs  |-> (e.day - s.day) * SecondsPerDay + (e.secs - s.secs) + adj
                      + frac \div NanosPerSecond,
         nanos |-> frac % NanosPerSecond]

\* TimeDelta::num_seconds: the sub-second part is dropped toward zero.
whole_seconds(delta) ==
    IF delta.secs < 0 /\ delta.nanos > 0 THEN delta.secs + 1 ELSE delta.secs

\* (end - start).num_seconds()
num_seconds(start, end) == whole_seconds(signed_duration_since(utc(end), utc(start)))

(***************************************************************************)
(* The EventSummary built in report's inner closure.                       *)
(***************************************************************************)
DateText(t) == Pad2(t.day) \o <<"-">> \o Pad2(t.month) \o <<"-">> \o Dec(t.year)

ClockText(t) == Pad2(t.hour) \o <<":">> \o Pad2(t.minute)

\* The test that chooses the single-date form of the date label.
same_day(start, end) == start.day = end.day

date_label(start, end) ==
    IF same_day(start, end) THEN DateText(start)
    ELSE DateText(start) \o <<" ", "-", " ">> \o DateText(end)

time_label(start, end) == ClockText(start) \o <<" ", "-", " ">> \o ClockText(end)

summary_of(start, end, seconds) ==
    [date         |-> date_label(start, end),
     time         |-> time_label(start, end),
     duration     |-> fmt_duration(seconds),
     duration_sec |-> seconds,
     date_start   |-> start.day,
     month_start  |-> start.month,
     year_start   |-> start.year]

EventSummary(start, end) == summary_of(start, end, num_seconds(start, end))

(***************************************************************************)
(* A raw event is its list of properties; a property has a name and an     *)
(* optional value (ical's Property.value: Option<String>; the parser       *)
(* gives None for a property written with nothing after the colon).        *)
(***************************************************************************)
None == [some |-> FALSE, text |-> <<>>]

Some(t) == [some |-> TRUE, text |-> t]

Prop(n, v) == [name |-> n, value |-> v]

\* properties.iter().find(|prop| prop.name.eq(n)): the first property named n.
FindProp(properties, n) ==
    LET hits == {i \in 1..Len(properties) : properties[i].name = n}
    IN  IF hits = {} THEN [found |-> FALSE, value |-> None]
        ELSE [found |-> TRUE,
              value |-> properties[CHOOSE i \in hits : \A j \in hits : i <= j].value]

marker_lenient(properties, n) ==
    LET p == FindProp(properties, n)
    IN  IF p.found THEN Some(p.value.text) ELSE None

\* The match on dtstart / dtend: Some(x) if x.value.is_some() gives the
\* value, anything else is "missing".
marker(properties, n) ==
    LET p == FindProp(properties, n)
    IN  IF p.found /\ p.value.some THEN p.value ELSE None

NoSummary == [date |-> <<>>, time |-> <<>>, duration |-> <<>>, duration_sec |-> 0,
              date_start |-> 0, month_start |-> 0, year_start |-> 0]

Skip == [res |-> "skip", summary |-> NoSummary]

Fatal == [res |-> "err", summary |-> NoSummary]

parse_failure_skips == Skip

\* What a failed parse_from_rfc3339(..)? returns from the closure.
parse_failure == Fatal

\* The closure from the two parsed instants on.
summarize_parsed(start, end) ==
    IF ~start.ok THEN parse_failure
    ELSE IF ~end.ok THEN parse_failure
    ELSE [res |-> "some", summary |-> EventSummary(start, end)]

\* The closure from the two markers on.
summarize_markers(dtstart, dtend) ==
    IF ~dtstart.some THEN Skip
    ELSE IF ~dtend.some THEN Skip
    ELSE summarize_parsed(parse_from_rfc3339(hypentate_dttime(dtstart.text)),
                          parse_from_rfc3339(hypentate_dttime(dtend.text)))

\* The closure applied to one event: Ok(None), Err or Ok(Some(summary)).
summarize(event) == summarize_markers(marker(event, "DTSTART"), marker(event, "DTEND"))

(***************************************************************************)
(* The tokens and the events drawn as inputs                               *)
(***************************************************************************)
\* Compact date-time tokens as calendars carry them.
Tok_20210105T090000Z ==
    <<"2","0","2","1","0","1","0","5","T","0","9","0","0","0","0","Z">>

Tok_20210105T173000Z ==
    <<"2","0","2","1","0","1","0","5","T","1","7","3","0","0","0","Z">>

Tok_20210205T100000Z ==
    <<"2","0","2","1","0","2","0","5","T","1","0","0","0","0","0","Z">>

\* A start written with a numeric offset.
Tok_20210105T090000p01c00 ==
    <<"2","0","2","1","0","1","0","5","T","0","9","0","0","0","0","+","0","1",":","0","0">>

\* A blank between date and time.
Tok_20210305b100000Z ==
    <<"2","0","2","1","0","3","0","5"," ","1","0","0","0","0","0","Z">>

\* A seconds field of 60.
Tok_20220103T235960Z ==
    <<"2","0","2","2","0","1","0","3","T","2","3","5","9","6","0","Z">>

\* A fraction of a second.
Tok_20220104T010000d5Z ==
    <<"2","0","2","2","0","1","0","4","T","0","1","0","0","0","0",".","5","Z">>

\* An all-day value (VALUE=DATE) and a floating local time: neither becomes
\* an RFC 3339 text.
Tok_20210105 == <<"2","0","2","1","0","1","0","5">>

Tok_20210105T090000 ==
    <<"2","0","2","1","0","1","0","5","T","0","9","0","0","0","0">>

Tok_20220921T151530Z ==
    <<"2","0","2","2","0","9","2","1","T","1","5","1","5","3","0","Z">>

Txt_2022_09_21T15_15_30Z ==
    <<"2","0","2","2","-","0","9","-","2","1","T","1","5",":","1","5",":","3","0","Z">>

Tok_20220921T151530p0100 ==
    <<"2","0","2","2","0","9","2","1","T","1","5","1","5","3","0","+","0","1","0","0">>

Letters ==
    <<"a","b","c","d","e","f","g","h","i","j","k","l","m","n","o","p","q","r","s","t">>

Ev(dtstart, dtend) == <<Prop("DTSTART", Some(dtstart)), Prop("DTEND", Some(dtend))>>

EvWorkDay == <<Prop("SUMMARY", Some(<<"w">>))>>
                \o Ev(Tok_20210105T090000p01c00, Tok_20210105T173000Z)

EvOvernight == Ev(Tok_20220103T235960Z, Tok_20220104T010000d5Z)

EvMonthLong == Ev(Tok_20210205T100000Z, Tok_20210305b100000Z)

EvBackwards == Ev(Tok_20210105T173000Z, Tok_20210105T090000Z)

EvNoStart == <<Prop("DTEND", Some(Tok_20210105T173000Z))>>

EvEndNoValue == <<Prop("DTSTART", Some(Tok_20210205T100000Z)), Prop("DTEND", None)>>

EvAllDayStart == Ev(Tok_20210105, Tok_20210105T173000Z)

EvFloatingEnd == Ev(Tok_20210105T090000Z, Tok_20210105T090000)

EvAllDayNoEnd == <<Prop("DTSTART", Some(Tok_20210105))>>

RawEvents ==
    {EvWorkDay, EvOvernight, EvMonthLong, EvBackwards, EvNoStart, EvEndNoValue,
     EvAllDayStart, EvFloatingEnd, EvAllDayNoEnd}

\* The inner closure on an event of a served file.  Its results on the
\* events above are computed once and looked up; on any other event the
\* closure is computed in place.
Summaries == [e \in RawEvents |-> summarize(e)]

summarize_event(event) ==
    IF event \in RawEvents THEN Summaries[event] ELSE summarize(event)

(***************************************************************************)
(* report: flattening, filters, sort, total                                *)
(***************************************************************************)
IsSome(r) == r.res = "some"

\* .filter_map(|x| x): the summaries of the Ok(Some(..)) results, in order.
filter_map(rs) ==
    LET kept == SelectSeq(rs, IsSome)
    IN  [i \in 1..Len(kept) |-> kept[i].summary]

\* collect::<Result<Vec<_>>>()? and filter_map: Err if the closure failed on
\* any event, else the summaries.
collect_events(rs) ==
    IF \E i \in 1..Len(rs) : rs[i].res = "err"
    THEN [ok |-> FALSE, list |-> <<>>]
    ELSE [ok |-> TRUE, list |-> filter_map(rs)]

\* The outer closure applied to one calendar the parser yields: ical? fails
\* on a calendar the parser could not read.
calendar_summaries(cal) ==
    IF ~cal.parsed THEN [ok |-> FALSE, list |-> <<>>]
    ELSE collect_events([i \in 1..Len(cal.events) |-> summarize_event(cal.events[i])])

RECURSIVE flatten_reversed(_)
flatten_reversed(lists) ==
    IF lists = <<>> THEN <<>> ELSE flatten_reversed(Tail(lists)) \o Head(lists)

\* .into_iter().flatten(): the lists one after the other.
RECURSIVE flatten(_)
flatten(lists) == IF lists = <<>> THEN <<>> ELSE Head(lists) \o flatten(Tail(lists))

\* The outer collect and flatten: Err if any calendar gave Err.
collect_calendars(per) ==
    IF \E c \in 1..Len(per) : ~per[c].ok
    THEN [ok |-> FALSE, list |-> <<>>]
    ELSE [ok |-> TRUE, list |-> flatten([c \in 1..Len(per) |-> per[c].list])]

\* Lines 130-212: Err, or the flat sequence of summaries.
flat_events(body) ==
    collect_calendars([c \in 1..Len(body) |-> calendar_summaries(body[c])])

NoFilter == [some |-> FALSE, val |-> 0]

Only(v) == [some |-> TRUE, val |-> v]

month_filter(events, month) ==
    SelectSeq(events, LAMBDA e : IF month.some THEN e.month_start = month.val ELSE TRUE)

year_filter(events, year) ==
    SelectSeq(events, LAMBDA e : IF year.some THEN e.year_start = year.val ELSE TRUE)

filter_either(events, month, year) ==
    SelectSeq(events, LAMBDA e :
        \/ (IF month.some THEN e.month_start = month.val ELSE TRUE)
        \/ (IF year.some THEN e.year_start = year.val ELSE TRUE))

\* Lines 214-222: the month filter, then the year filter.
filter_events(events, month, year) == year_filter(month_filter(events, month), year)

\* x put behind the elements of the sorted sequence whose key is not larger.
insert_stable(sorted, x) ==
    LET n == Cardinality({i \in 1..Len(sorted) : sorted[i].date_start <= x.date_start})
    IN  SubSeq(sorted, 1, n) \o <<x>> \o SubSeq(sorted, n + 1, Len(sorted))

insert_before_equal(sorted, x) ==
    LET n == Cardinality({i \in 1..Len(sorted) : sorted[i].date_start < x.date_start})
    IN  SubSeq(sorted, 1, n) \o <<x>> \o SubSeq(sorted, n + 1, Len(sorted))

RECURSIVE sort_unstable(_)
sort_unstable(events) ==
    IF events = <<>> THEN <<>>
    ELSE insert_before_equal(sort_unstable(SubSeq(events, 1, Len(events) - 1)),
                             events[Len(events)])

\* events.sort_by(|a, b| a.date_start.cmp(&b.date_start)): a stable sort.
RECURSIVE sort_by_date_start(_)
sort_by_date_start(events) ==
    IF events = <<>> THEN <<>>
    ELSE insert_stable(sort_by_date_start(SubSeq(events, 1, Len(events) - 1)),
                       events[Len(events)])

\* A sum that takes the durations as unsigned amounts.
RECURSIVE calc_total_unsigned(_)
calc_total_unsigned(events) ==
    IF events = <<>> THEN 0
    ELSE (IF Head(events).duration_sec < 0 THEN -Head(events).duration_sec
          ELSE Head(events).duration_sec) + calc_total_unsigned(Tail(events))

\* events.iter().map(|x| x.duration_sec).sum()

RECURSIVE calc_total_duration(_)
calc_total_duration(events) ==
    IF events = <<>> THEN 0
    ELSE Head(events).duration_sec + calc_total_duration(Tail(events))

NoReport ==
    [status |-> "none", error |-> "", downloaded |-> FALSE,
     month |-> NoFilter, year |-> NoFilter,
     flat |-> <<>>, retained |-> <<>>, events |-> <<>>, rendered |-> "none",
     total |-> 0, total_label |-> <<>>]

\* OutFormat
OutFormats == {"Table", "Pdf"}

\* download_ical: the request fails, or gives the calendars of the body.
RequestFailed == [ok |-> FALSE, body |-> <<>>]

Served(body) == [ok |-> TRUE, body |-> body]

\* Lines 227-230: the renderer, given the three values of `events`.
render(flat, retained, events, month, year, out_format, pdf_ok) ==
    LET built == [NoReport EXCEPT !.downloaded = TRUE,
                                  !.month = month, !.year = year,
                                  !.flat = flat, !.retained = retained,
                                  !.events = events]
    IN  IF out_format = "Pdf" /\ ~pdf_ok
        THEN [built EXCEPT !.status = "err", !.error = "pdf"]
        ELSE [built EXCEPT
                !.status = "ok",
                !.rendered = IF out_format = "Pdf" THEN "pdf" ELSE "table",
                !.total = calc_total_duration(events),
                !.total_label = fmt_duration(calc_total_duration(events))]

\* Lines 214-225: the filters have run; the sort.
report_events(flat, retained, month, year, out_format, pdf_ok) ==
    render(flat, retained, sort_by_date_start(retained),
           month, year, out_format, pdf_ok)

\* Lines 129-212: the collected summaries or the error.
report_flat(flat, month, year, out_format, pdf_ok) ==
    IF ~flat.ok
    THEN [NoReport EXCEPT !.status = "err", !.error = "parse", !.downloaded = TRUE,
                          !.month = month, !.year = year]
    ELSE report_events(flat.list, filter_events(flat.list, month, year),
                       month, year, out_format, pdf_ok)

\* report(config, ics_index, month, year, out_format) when download_ical
\* gives `fetched` and pdf::generate_pdf succeeds or fails as pdf_ok says.
\* flat and retained are the two intermediate values of the local `events`;
\* the errors are named by the step that raised them.
report(cfg, ics_index, month, year, out_format, fetched, pdf_ok) ==
    IF ics_index >= Len(cfg)
    THEN [NoReport EXCEPT !.status = "err", !.error = "Invalid index"]
    ELSE IF ~fetched.ok
    THEN [NoReport EXCEPT !.status = "err", !.error = "request"]
    ELSE report_flat(flat_events(fetched.body), month, year, out_format, pdf_ok)

(***************************************************************************)
(* A Rust String or the bytes of a file, as a sequence of runs.  A run is  *)
(* a byte c repeated up to the offset e, where the run before it ended     *)
(* (the first run starts at offset 0); no two neighbouring runs are of     *)
(* one byte, so that equal texts are equal values.  A byte is written as   *)
(* the ASCII character it encodes, and as x and its two hexadecimal        *)
(* digits where TLA+ has no string for that character: the control         *)
(* characters other than \n \t \r \f, the grave accent (x60), DEL (x7f)    *)
(* and the bytes from x80 on, of which the characters beyond ASCII are     *)
(* made in UTF-8 (e-acute is xc3, xa9).                                    *)
(***************************************************************************)
Hex == <<"0", "1", "2", "3", "4", "5", "6", "7", "8", "9", "a", "b", "c", "d", "e", "f">>

\* The characters from the space (32) to the tilde (126).
Printable ==
    <<" ", "!", "\"", "#", "$", "%", "&", "'", "(", ")", "*", "+", ",", "-", ".", "/",
      "0", "1", "2", "3", "4", "5", "6", "7", "8", "9", ":", ";", "<", "=", ">", "?",
      "@", "A", "B", "C", "D", "E", "F", "G", "H", "I", "J", "K", "L", "M", "N", "O",
      "P", "Q", "R", "S", "T", "U", "V", "W", "X", "Y", "Z", "[", "\\", "]", "^", "_",
      "x60", "a", "b", "c", "d", "e", "f", "g", "h", "i", "j", "k", "l", "m", "n", "o",
      "p", "q", "r", "s", "t", "u", "v", "w", "x", "y", "z", "{", "|", "}", "~">>

\* The byte of the value n.
Byte ==
    [n \in 0..255 |->
        IF n \in 32..126 THEN Printable[n - 31]
        ELSE IF n = 9 THEN "\t"
        ELSE IF n = 10 THEN "\n"
        ELSE IF n = 12 THEN "\f"
        ELSE IF n = 13 THEN "\r"
        ELSE "x" \o Hex[(n \div 16) + 1] \o Hex[(n % 16) + 1]]

\* The value of a byte.
Code == [c \in {Byte[n] : n \in 0..255} |-> CHOOSE n \in 0..255 : Byte[n] = c]

Run(c, n) == IF n > 0 THEN <<[c |-> c, e |-> n]>> ELSE <<>>

\* The number of bytes.
TextLen(t) == IF t = <<>> THEN 0 ELSE t[Len(t)].e

\* The runs of t, d bytes further on.
Shift(t, d) == [i \in 1..Len(t) |-> [c |-> t[i].c, e |-> t[i].e + d]]

\* a followed by b
Cat(a, b) ==
    IF a = <<>> THEN b
    ELSE IF b = <<>> THEN a
    ELSE IF a[Len(a)].c = b[1].c
    THEN SubSeq(a, 1, Len(a) - 1) \o Shift(b, TextLen(a))
    ELSE a \o Shift(b, TextLen(a))

RECURSIVE TextFrom(_, _, _)
TextFrom(chars, i, acc) ==
    IF i > Len(chars) THEN acc
    ELSE TextFrom(chars, i + 1, Cat(acc, Run(chars[i], 1)))

\* The text of a sequence of bytes.
Text(chars) == TextFrom(chars, 1, <<>>)

\* head followed by n times the byte c
Padded(head, c, n) == Cat(Text(head), Run(c, n))

EmptyText == <<>>

\* The number of runs of t that end within its first k bytes.
RunsWithin(t, k) == Cardinality({i \in 1..Len(t) : t[i].e <= k})

\* The first k bytes of t.
Take(t, k) ==
    IF k >= TextLen(t) THEN t
    ELSE IF k <= 0 THEN <<>>
    ELSE LET j == RunsWithin(t, k)
         IN  IF j > 0 /\ t[j].e = k THEN SubSeq(t, 1, j)
             ELSE SubSeq(t, 1, j) \o <<[c |-> t[j + 1].c, e |-> k]>>

\* t without its first k bytes.
Drop(t, k) ==
    IF k <= 0 THEN t
    ELSE IF k >= TextLen(t) THEN <<>>
    ELSE Shift(SubSeq(t, RunsWithin(t, k) + 1, Len(t)), -k)

\* The bytes at the offsets from .. to-1.
Slice(t, from, to) == Take(Drop(t, from), to - from)

\* The parts one after another.
RECURSIVE Join(_)
Join(parts) == IF parts = <<>> THEN <<>> ELSE Cat(Head(parts), Join(Tail(parts)))

ICalConfig(link, name) == [url |-> link, name |-> name]

(***************************************************************************)
(* serde_json::to_vec_pretty                                               *)
(***************************************************************************)
Quote == "\""
Backslash == "\\"

\* The control characters, U+0000 to U+001F.
Control == {Byte[n] : n \in 0..31}

\* What serde_json writes after a backslash for the bytes it does not write
\* as they are: the quote, the backslash, and the control characters, of
\* which five have a letter and the others are written \u00XX.
Escaped ==
    [c \in Control \cup {Quote, Backslash} |->
        CASE c = Quote -> Run(Quote, 1)
          [] c = Backslash -> Run(Backslash, 1)
          [] c = Byte[8] -> Run("b", 1)
          [] c = "\t" -> Run("t", 1)
          [] c = "\n" -> Run("n", 1)
          [] c = "\f" -> Run("f", 1)
          [] c = "\r" -> Run("r", 1)
          [] OTHER -> Cat(Cat(Run("u", 1), Run("0", 2)),
                          Cat(Run(Hex[(Code[c] \div 16) + 1], 1),
                              Run(Hex[(Code[c] % 16) + 1], 1)))]

\* The number of bytes of the i-th run.
RunLen(t, i) == t[i].e - (IF i = 1 THEN 0 ELSE t[i - 1].e)

RECURSIVE escape_run(_, _)
escape_run(e, n) ==
    IF n = 0 THEN <<>> ELSE Cat(Cat(Run(Backslash, 1), e), escape_run(e, n - 1))

RECURSIVE escape_from(_, _)
escape_from(t, i) ==
    IF i > Len(t) THEN <<>>
    ELSE Cat(IF t[i].c \in DOMAIN Escaped
             THEN escape_run(Escaped[t[i].c], RunLen(t, i))
             ELSE Run(t[i].c, RunLen(t, i)),
             escape_from(t, i + 1))

\* A string as JSON writes it.
json_string(t) == Join(<<Run(Quote, 1), escape_from(t, 1), Run(Quote, 1)>>)

UrlKey == Text(<<"u", "r", "l">>)
NameKey == Text(<<"n", "a", "m", "e">>)
IcalKey == Text(<<"i", "c", "a", "l">>)

Newline(indent) == Cat(Run("\n", 1), Run(" ", indent))

Member(indent, key, value) ==
    Join(<<Newline(indent), json_string(key), Run(":", 1), Run(" ", 1), value>>)

json_entry(e) ==
    Join(<<Newline(4), Run("{", 1),
           Member(6, UrlKey, json_string(e.url)), Run(",", 1),
           Member(6, NameKey, json_string(e.name)),
           Newline(4), Run("}", 1)>>)

RECURSIVE json_entries(_, _)
json_entries(ical, i) ==
    IF i > Len(ical) THEN <<>>
    ELSE Join(<<IF i > 1 THEN Run(",", 1) ELSE <<>>, json_entry(ical[i]),
                json_entries(ical, i + 1)>>)

json_array(ical) ==
    IF ical = <<>> THEN Text(<<"[", "]">>)
    ELSE Join(<<Run("[", 1), json_entries(ical, 1), Newline(2), Run("]", 1)>>)

to_vec_pretty(ical) ==
    Join(<<Run("{", 1), Member(2, IcalKey, json_array(ical)), Newline(0), Run("}", 1)>>)

(***************************************************************************)
(* serde_json::from_slice::<Config>                                        *)
(***************************************************************************)
\* A place in a text: the offset o, which lies in the i-th run.
Start == [i |-> 1, o |-> 0]

EndOfInput == "end of input"

Chr(b, p) == IF p.i > Len(b) THEN EndOfInput ELSE b[p.i].c

\* One byte on.
Step(b, p) ==
    IF p.o + 1 < b[p.i].e THEN [i |-> p.i, o |-> p.o + 1]
    ELSE [i |-> p.i + 1, o |-> p.o + 1]

\* On to the next run.
NextRun(b, p) == [i |-> p.i + 1, o |-> b[p.i].e]

\* The bytes of the run from the place on.
Left(b, p) == b[p.i].e - p.o

Whitespace == {" ", "\n", "\t", "\r"}

RECURSIVE skip_ws(_, _)
skip_ws(b, p) == IF Chr(b, p) \in Whitespace THEN skip_ws(b, NextRun(b, p)) ELSE p

Failed == [ok |-> FALSE, at |-> Start, val |-> <<>>]

Read(p, v) == [ok |-> TRUE, at |-> p, val |-> v]

\* What stands for the character after a backslash.
Unescaped == [c \in {Quote, Backslash, "/", "b", "f", "n", "r", "t"} |->
                CASE c = "b" -> Byte[8]
                  [] c = "f" -> "\f"
                  [] c = "n" -> "\n"
                  [] c = "r" -> "\r"
                  [] c = "t" -> "\t"
                  [] OTHER -> c]

\* The value of a hexadecimal digit of either case, -1 of any other byte.
HexVal(c) ==
    IF c = EndOfInput THEN -1
    ELSE IF Code[c] \in 48..57 THEN Code[c] - 48
    ELSE IF Code[c] \in 65..70 THEN Code[c] - 55
    ELSE IF Code[c] \in 97..102 THEN Code[c] - 87
    ELSE -1

\* decode_hex_escape: the number the four hexadecimal digits at p write;
\* k of them are still to be read and n is the number so far.
RECURSIVE hex_from(_, _, _, _)
hex_from(b, p, k, n) ==
    IF k = 0 THEN Read(p, n)
    ELSE IF HexVal(Chr(b, p)) < 0 THEN Failed
    ELSE hex_from(b, Step(b, p), k - 1, 16 * n + HexVal(Chr(b, p)))

decode_hex_escape(b, p) == hex_from(b, p, 4, 0)

\* char::encode_utf8: the bytes of the character of the number n.
encode_utf8(n) ==
    IF n < 128 THEN Run(Byte[n], 1)
    ELSE IF n < 2048
    THEN Text(<<Byte[192 + (n \div 64)], Byte[128 + (n % 64)]>>)
    ELSE IF n < 65536
    THEN Text(<<Byte[224 + (n \div 4096)], Byte[128 + ((n \div 64) % 64)],
                Byte[128 + (n % 64)]>>)
    ELSE Text(<<Byte[240 + (n \div 262144)], Byte[128 + ((n \div 4096) % 64)],
                Byte[128 + ((n \div 64) % 64)], Byte[128 + (n % 64)]>>)

\* str::from_utf8 on the bytes of t from the place p on: whether they are
\* whole characters in UTF-8.  More(t, p, lo, hi) says that a byte from lo to
\* hi stands at p.
More(t, p, lo, hi) == Chr(t, p) # EndOfInput /\ Code[Chr(t, p)] \in lo..hi

RECURSIVE utf8_from(_, _)
RECURSIVE utf8_tail(_, _, _)
\* k bytes from x80 to xbf, and whole characters behind them.
utf8_tail(t, p, k) ==
    IF k = 0 THEN utf8_from(t, p)
    ELSE More(t, p, 128, 191) /\ utf8_tail(t, Step(t, p), k - 1)

\* A byte from lo to hi, k bytes from x80 to xbf, and whole characters.
utf8_second(t, p, lo, hi, k) == More(t, p, lo, hi) /\ utf8_tail(t, Step(t, p), k)

utf8_lead(t, p, n) ==
    IF n < 128 THEN utf8_from(t, NextRun(t, p))
    ELSE IF n \in 194..223 THEN utf8_tail(t, Step(t, p), 1)
    ELSE IF n = 224 THEN utf8_second(t, Step(t, p), 160, 191, 1)
    ELSE IF n \in 225..236 \/ n \in 238..239 THEN utf8_tail(t, Step(t, p), 2)
    ELSE IF n = 237 THEN utf8_second(t, Step(t, p), 128, 159, 1)
    ELSE IF n = 240 THEN utf8_second(t, Step(t, p), 144, 191, 2)
    ELSE IF n \in 241..243 THEN utf8_tail(t, Step(t, p), 3)
    ELSE IF n = 244 THEN utf8_second(t, Step(t, p), 128, 143, 2)
    ELSE FALSE

utf8_from(t, p) == Chr(t, p) = EndOfInput \/ utf8_lead(t, p, Code[Chr(t, p)])

from_utf8(t) ==
    \/ \A i \in 1..Len(t) : Code[t[i].c] < 128
    \/ utf8_from(t, Start)

\* A string that becomes a String, from behind its opening quote; acc are
\* its bytes so far.  A control character written as it is, an escape JSON
\* does not have, a half of a surrogate pair without the other half and
\* bytes that are not UTF-8 are errors.  The steps of an escape, last
\* first: the low half l of a pair was read behind the high half hi; the
\* number h of a \u was read; the byte behind the backslash stands at p.
RECURSIVE str_from(_, _, _)
str_low(b, l, hi, acc) ==
    IF l.ok /\ l.val \in 56320..57343
    THEN str_from(b, l.at,
                  Cat(acc, encode_utf8(65536 + ((hi - 55296) * 1024) + (l.val - 56320))))
    ELSE Failed

str_hex(b, h, acc) ==
    IF ~h.ok \/ h.val \in 56320..57343 THEN Failed
    ELSE IF h.val \in 55296..56319
    THEN IF Chr(b, h.at) = Backslash /\ Chr(b, Step(b, h.at)) = "u"
         THEN str_low(b, decode_hex_escape(b, Step(b, Step(b, h.at))), h.val, acc)
         ELSE Failed
    ELSE str_from(b, h.at, Cat(acc, encode_utf8(h.val)))

parse_escape(b, p, acc) ==
    IF Chr(b, p) \in DOMAIN Unescaped
    THEN str_from(b, Step(b, p), Cat(acc, Run(Unescaped[Chr(b, p)], 1)))
    ELSE IF Chr(b, p) = "u" THEN str_hex(b, decode_hex_escape(b, Step(b, p)), acc)
    ELSE Failed

str_from(b, p, acc) ==
    IF Chr(b, p) = EndOfInput \/ Chr(b, p) \in Control THEN Failed
    ELSE IF Chr(b, p) = Quote
    THEN IF from_utf8(acc) THEN Read(Step(b, p), acc) ELSE Failed
    ELSE IF Chr(b, p) = Backslash THEN parse_escape(b, Step(b, p), acc)
    ELSE str_from(b, NextRun(b, p), Cat(acc, Run(Chr(b, p), Left(b, p))))

\* A value that must be a string.
parse_str(b, p) == IF Chr(b, p) = Quote THEN str_from(b, Step(b, p), <<>>) ELSE Failed

\* A string that is read and dropped, from behind its opening quote: its
\* escapes must be JSON's, with any four hexadecimal digits behind \u, and
\* its bytes need not be UTF-8.
RECURSIVE ignore_str(_, _)
ignore_hex(b, h) == IF h.ok THEN ignore_str(b, h.at) ELSE Failed

ignore_escape(b, p) ==
    IF Chr(b, p) \in DOMAIN Unescaped THEN ignore_str(b, Step(b, p))
    ELSE IF Chr(b, p) = "u" THEN ignore_hex(b, decode_hex_escape(b, Step(b, p)))
    ELSE Failed

ignore_str(b, p) ==
    IF Chr(b, p) = EndOfInput \/ Chr(b, p) \in Control THEN Failed
    ELSE IF Chr(b, p) = Quote THEN Read(Step(b, p), <<>>)
    ELSE IF Chr(b, p) = Backslash THEN ignore_escape(b, Step(b, p))
    ELSE ignore_str(b, NextRun(b, p))

RECURSIVE word_from(_, _, _, _)
word_from(b, p, w, i) ==
    IF i > Len(w) THEN Read(p, <<>>)
    ELSE IF Chr(b, p) = w[i] THEN word_from(b, Step(b, p), w, i + 1)
    ELSE Failed

RECURSIVE digits_from(_, _)
digits_from(b, p) == IF IsDigit(Chr(b, p)) THEN digits_from(b, Step(b, p)) ELSE p

\* One digit at least.
digits(b, p) == IF IsDigit(Chr(b, p)) THEN Read(digits_from(b, p), <<>>) ELSE Failed

exponent(b, p) ==
    IF Chr(b, p) \in {"e", "E"}
    THEN digits(b, IF Chr(b, Step(b, p)) \in {"+", "-"} THEN Step(b, Step(b, p))
                   ELSE Step(b, p))
    ELSE Read(p, <<>>)

fraction(b, p) ==
    IF Chr(b, p) = "."
    THEN LET d == digits(b, Step(b, p)) IN IF d.ok THEN exponent(b, d.at) ELSE Failed
    ELSE exponent(b, p)

\* A number, from its first digit.
integer(b, p) ==
    IF Chr(b, p) = "0"
    THEN IF IsDigit(Chr(b, Step(b, p))) THEN Failed ELSE fraction(b, Step(b, p))
    ELSE IF IsDigit(Chr(b, p)) THEN fraction(b, digits_from(b, p))
    ELSE Failed

\* A value of any kind, read and dropped (the value of a key that is not a
\* field).
RECURSIVE ignore_value(_, _)
RECURSIVE ignore_seq(_, _, _)
RECURSIVE ignore_map(_, _, _)
ignore_value(b, q) ==
    LET p == skip_ws(b, q)
        c == Chr(b, p)
    IN  IF c = Quote THEN ignore_str(b, Step(b, p))
        ELSE IF c = "[" THEN ignore_seq(b, Step(b, p), TRUE)
        ELSE IF c = "{" THEN ignore_map(b, Step(b, p), TRUE)
        ELSE IF c = "t" THEN word_from(b, p, <<"t", "r", "u", "e">>, 1)
        ELSE IF c = "f" THEN word_from(b, p, <<"f", "a", "l", "s", "e">>, 1)
        ELSE IF c = "n" THEN word_from(b, p, <<"n", "u", "l", "l">>, 1)
        ELSE IF c = "-" THEN integer(b, Step(b, p))
        ELSE integer(b, p)

\* The place of the next element of a sequence or key of a map closed by
\* `close`: [ok, end, at].
next_item(b, q, first, close) ==
    LET p == skip_ws(b, q)
        c == Chr(b, p)
    IN  IF c = close THEN [ok |-> TRUE, end |-> TRUE, at |-> Step(b, p)]
        ELSE IF first THEN [ok |-> c # EndOfInput, end |-> FALSE, at |-> p]
        ELSE IF c = ","
        THEN LET r == skip_ws(b, Step(b, p))
             IN  [ok |-> Chr(b, r) \notin {close, EndOfInput}, end |-> FALSE, at |-> r]
        ELSE [ok |-> FALSE, end |-> FALSE, at |-> p]

\* The place behind the colon that follows a key.
colon(b, q) ==
    LET p == skip_ws(b, q)
    IN  IF Chr(b, p) = ":" THEN Read(skip_ws(b, Step(b, p)), <<>>) ELSE Failed

ignore_more(b, v) == IF v.ok THEN ignore_seq(b, v.at, FALSE) ELSE Failed

ignore_item(b, n) ==
    IF ~n.ok THEN Failed
    ELSE IF n.end THEN Read(n.at, <<>>)
    ELSE ignore_more(b, ignore_value(b, n.at))

ignore_seq(b, q, first) == ignore_item(b, next_item(b, q, first, "]"))

ignore_field(b, v) == IF v.ok THEN ignore_map(b, v.at, FALSE) ELSE Failed

ignore_colon(b, c) == IF c.ok THEN ignore_field(b, ignore_value(b, c.at)) ELSE Failed

ignore_key(b, k) == IF k.ok THEN ignore_colon(b, colon(b, k.at)) ELSE Failed

\* A key of a map that is dropped is read as a string that is dropped.
ignore_member(b, n) ==
    IF ~n.ok THEN Failed
    ELSE IF n.end THEN Read(n.at, <<>>)
    ELSE IF Chr(b, n.at) = Quote THEN ignore_key(b, ignore_str(b, Step(b, n.at)))
    ELSE Failed

ignore_map(b, q, first) == ignore_member(b, next_item(b, q, first, "}"))

Absent == [some |-> FALSE, text |-> <<>>]

Present(t) == [some |-> TRUE, text |-> t]

\* The closing bracket of a sequence whose elements, read as v, are all
\* there: n is what next_item found.
seq_end(n, v) == IF n.ok /\ n.end THEN Read(n.at, v) ELSE Failed

\* An ICalConfig written as a map, from behind its brace; url and name are
\* the fields read so far.  The steps, last first: the value v of the field
\* key was read; the colon c behind the key was read; the key k was read;
\* next_item found n.
RECURSIVE entry_map(_, _, _, _, _)
entry_field(b, v, key, url, name) ==
    IF ~v.ok THEN Failed
    ELSE IF key = UrlKey
    THEN IF url.some THEN Failed
         ELSE entry_map(b, v.at, FALSE, Present(v.val), name)
    ELSE IF key = NameKey
    THEN IF name.some THEN Failed
         ELSE entry_map(b, v.at, FALSE, url, Present(v.val))
    ELSE entry_map(b, v.at, FALSE, url, name)

entry_value(b, c, key, url, name) ==
    IF ~c.ok THEN Failed
    ELSE entry_field(b, IF key \in {UrlKey, NameKey} THEN parse_str(b, c.at)
                        ELSE ignore_value(b, c.at),
                     key, url, name)

entry_key(b, k, url, name) ==
    IF ~k.ok THEN Failed ELSE entry_value(b, colon(b, k.at), k.val, url, name)

entry_item(b, n, url, name) ==
    IF ~n.ok THEN Failed
    ELSE IF n.end
    THEN IF url.some /\ name.some
         THEN Read(n.at, ICalConfig(url.text, name.text))
         ELSE Failed
    ELSE entry_key(b, parse_str(b, n.at), url, name)

entry_map(b, q, first, url, name) ==
    entry_item(b, next_item(b, q, first, "}"), url, name)

\* An ICalConfig written as a sequence: the url, the name and no more.  The
\* steps, last first.
entry_seq_name(b, m, url) ==
    IF m.ok THEN seq_end(next_item(b, m.at, FALSE, "]"), ICalConfig(url, m.val))
    ELSE Failed

entry_seq_second(b, n, url) ==
    IF n.ok /\ ~n.end THEN entry_seq_name(b, parse_str(b, n.at), url) ELSE Failed

entry_seq_url(b, u) ==
    IF u.ok THEN entry_seq_second(b, next_item(b, u.at, FALSE, "]"), u.val)
    ELSE Failed

entry_seq_first(b, n) ==
    IF n.ok /\ ~n.end THEN entry_seq_url(b, parse_str(b, n.at)) ELSE Failed

entry_seq(b, q) == entry_seq_first(b, next_item(b, q, TRUE, "]"))

parse_entry(b, p) ==
    IF Chr(b, p) = "{" THEN entry_map(b, Step(b, p), TRUE, Absent, Absent)
    ELSE IF Chr(b, p) = "[" THEN entry_seq(b, Step(b, p))
    ELSE Failed

\* The elements of a Vec<ICalConfig>, from behind its bracket; acc are the
\* elements read so far.  The steps, last first: the element e was read;
\* next_item found n.
RECURSIVE entries_from(_, _, _, _)
entries_more(b, e, acc) ==
    IF e.ok THEN entries_from(b, e.at, FALSE, Append(acc, e.val)) ELSE Failed

entries_item(b, n, acc) ==
    IF ~n.ok THEN Failed
    ELSE IF n.end THEN Read(n.at, acc)
    ELSE entries_more(b, parse_entry(b, n.at), acc)

entries_from(b, q, first, acc) ==
    entries_item(b, next_item(b, q, first, "]"), acc)

parse_vec(b, p) ==
    IF Chr(b, p) = "[" THEN entries_from(b, Step(b, p), TRUE, <<>>) ELSE Failed

NoVec == [some |-> FALSE, list |-> <<>>]

\* A Config written as a map, from behind its brace; ical is the field
\* read so far.  The steps, last first, as for an ICalConfig.
RECURSIVE config_map(_, _, _, _)
config_field(b, v, key, ical) ==
    IF ~v.ok THEN Failed
    ELSE IF key = IcalKey
    THEN IF ical.some THEN Failed
         ELSE config_map(b, v.at, FALSE, [some |-> TRUE, list |-> v.val])
    ELSE config_map(b, v.at, FALSE, ical)

config_value(b, c, key, ical) ==
    IF ~c.ok THEN Failed
    ELSE config_field(b, IF key = IcalKey THEN parse_vec(b, c.at)
                         ELSE ignore_value(b, c.at),
                      key, ical)

config_key(b, k, ical) ==
    IF ~k.ok THEN Failed ELSE config_value(b, colon(b, k.at), k.val, ical)

config_item(b, n, ical) ==
    IF ~n.ok THEN Failed
    ELSE IF n.end THEN (IF ical.some THEN Read(n.at, ical.list) ELSE Failed)
    ELSE config_key(b, parse_str(b, n.at), ical)

config_map(b, q, first, ical) == config_item(b, next_item(b, q, first, "}"), ical)

\* A Config written as a sequence: the list and no more.
config_seq_list(b, v) ==
    IF v.ok THEN seq_end(next_item(b, v.at, FALSE, "]"), v.val) ELSE Failed

config_seq_first(b, n) ==
    IF n.ok /\ ~n.end THEN config_seq_list(b, parse_vec(b, n.at)) ELSE Failed

config_seq(b, q) == config_seq_first(b, next_item(b, q, TRUE, "]"))

parse_config(b, p) ==
    IF Chr(b, p) = "{" THEN config_map(b, Step(b, p), TRUE, NoVec)
    ELSE IF Chr(b, p) = "[" THEN config_seq(b, Step(b, p))
    ELSE Failed

\* The Config r was read: nothing but white space may stand behind it.
whole_input(b, r) ==
    IF r.ok /\ Chr(b, skip_ws(b, r.at)) = EndOfInput
    THEN [ok |-> TRUE, ical |-> r.val]
    ELSE [ok |-> FALSE, ical |-> <<>>]

\* serde_json::from_slice: one Config and nothing behind it.
from_slice(b) == whole_input(b, parse_config(b, skip_ws(b, Start)))

(***************************************************************************)
(* The file config.json and the calls of Config on it                      *)
(***************************************************************************)
\* The most bytes one read or write call of tokio's fs::File moves.
MaxBufSize == 2 * 1024 * 1024

\* config.json: absent, or its bytes.
NoFile == [exists |-> FALSE, bytes |-> <<>>]

File(bytes) == [exists |-> TRUE, bytes |-> bytes]

\* fs::File::create: the file exists and is empty.
file_create(file) == File(<<>>)

\* f.write(&buf), one call at the start of the file: at most MaxBufSize
\* bytes go out, and bytes the file holds behind them stay.
file_write(bytes, data) ==
    LET w == IF TextLen(data) < MaxBufSize THEN TextLen(data) ELSE MaxBufSize
    IN  Cat(Take(data, w), Drop(bytes, w))

\* Config::store, run with no other command between its steps.
store_file(ical) == File(file_write(file_create(NoFile).bytes, to_vec_pretty(ical)))

\* The capacity of the Vec of read_to_end for its next read, cap being its
\* capacity and len its length: read_to_end reserves 32 bytes, and a Vec
\* that has not the room for them grows to twice its capacity, or to the
\* room when that is more.
capacity(cap, len) ==
    IF cap - len >= 32 THEN cap
    ELSE IF 2 * cap > len + 32 THEN 2 * cap
    ELSE len + 32

\* One read of read_to_end with len bytes in a Vec of the capacity cap: the
\* file's bytes from the offset len on, as many as the Vec has room for and
\* one call moves.
read_chunk(bytes, len, cap) ==
    Slice(bytes, len, len + (IF cap - len < MaxBufSize THEN cap - len ELSE MaxBufSize))

never_exists(ical, name) == FALSE

\* config.ical.iter().find(|x| x.name.eq(&name)).is_some()
already_exists(ical, name) == \E i \in 1..Len(ical) : ical[i].name = name

\* A removal that takes the index as counted from 1.
remove_at_from_one(ical, index) ==
    SubSeq(ical, 1, index - 1) \o SubSeq(ical, index + 1, Len(ical))

\* config.ical.remove(index): index counts from 0.
remove_at(ical, index) ==
    SubSeq(ical, 1, index) \o SubSeq(ical, index + 2, Len(ical))

(***************************************************************************)
(* Inputs                                                                  *)
(***************************************************************************)
MaxCals == 2

MaxEvents == 2

MaxSources == 3

MaxSecs == 7300

MaxTokLen == 19

\* The command lines that run at a time.
Procs == {"one", "another"}

MaxProcs == Cardinality(Procs)

\* The commands that start while another is under way, over a whole run.
MaxOverlaps == 2

MonthArgs == {NoFilter, Only(1), Only(2)}

YearArgs == {NoFilter, Only(2021), Only(2022)}

Work == Text(<<"w","o","r","k">>)

Home == Text(<<"h","o","m","e">>)

\* A name with an e-acute, a quote and the control character U+001B in it.
Cafe == Text(<<"c","a","f","xc3","xa9","\"","x1b">>)

LinkA == Text(<<"h","t","t","p","s",":","/","/","a",".","e","x","a","m","p","l","e","/","c","a","l",".","i","c","s">>)

\* The name and link pairs drawn for ics_add.
AddArgs == {<<Work, LinkA>>, <<Home, LinkA>>, <<Cafe, LinkA>>}

SecsInputs ==
    (-MaxSecs..MaxSecs)
      \cup {b + r : b \in {86400, 360000, -86400, -360000, 2147400000, -2147400000},
                    r \in -61..61}

TokenSamples ==
    {Tok_20220921T151530Z, Tok_20220921T151530p0100, Txt_2022_09_21T15_15_30Z, Letters}

Min(a, b) == IF a < b THEN a ELSE b

\* The samples, their beginnings and their pieces from the second character.
TokenInputs ==
    UNION {{SubSeq(t, i, j) : i \in 1..2, j \in 0..Min(Len(t), MaxTokLen)}
           : t \in TokenSamples}

TotalEvents(body) == Len(flatten([c \in 1..Len(body) |-> body[c].events]))

(***************************************************************************)
(* to_vec_pretty and from_slice with the sources that ics_add is given     *)
(* and the files of the lists made of them worked out once and looked up.  *)
(***************************************************************************)
KnownSources == {ICalConfig(a[2], a[1]) : a \in AddArgs}

Entries == [e \in KnownSources |-> json_entry(e)]

RECURSIVE entries_from_table(_, _)
entries_from_table(ical, i) ==
    IF i > Len(ical) THEN <<>>
    ELSE Cat(Cat(IF i > 1 THEN Run(",", 1) ELSE <<>>,
                 IF ical[i] \in KnownSources THEN Entries[ical[i]]
                 ELSE json_entry(ical[i])),
             entries_from_table(ical, i + 1))

Opening == Text(<<"{", "\n", " ", " ", "\"", "i", "c", "a", "l", "\"", ":", " ", "[">>)

Closing == Text(<<"\n", " ", " ", "]", "\n", "}">>)

\* to_vec_pretty(ical)
serialized(ical) ==
    IF ical = <<>> THEN to_vec_pretty(ical)
    ELSE Cat(Opening, Cat(entries_from_table(ical, 1), Closing))

KnownLists ==
    {l \in UNION {[1..n -> KnownSources] : n \in 0..MaxSources} :
        \A i, j \in 1..Len(l) : l[i].name = l[j].name => i = j}

Configs == [b \in {to_vec_pretty(l) : l \in KnownLists} |-> from_slice(b)]

\* from_slice(b)
deserialized(b) == IF b \in DOMAIN Configs THEN Configs[b] ELSE from_slice(b)

(***************************************************************************)
(* Commands as processes on config.json                                    *)
(*                                                                         *)
(* Every command line is a process of its own.  Config::open tests         *)
(* path.exists(), opens the file and reads it to its end, one read call    *)
(* after another; the command then decides and changes its list in         *)
(* memory; Config::store creates (truncates) the file and writes it with   *)
(* one call.  Other commands run between any two of these calls.  What     *)
(* the command line says is used first behind Config::open, and is drawn   *)
(* there.                                                                  *)
(***************************************************************************)
NoCmd == [op |-> "none", name |-> EmptyText, link |-> EmptyText, index |-> 0]

\* A file handle: none, the file config.json names, or the k-th of the
\* files that were removed while a command held them open (k > 0).
NoFd == 0 - 1

Linked == 0

\* A command under way: its place, its handle, the bytes read so far and
\* the capacity of the Vec that holds them, its command line (once used)
\* and its list.
Proc(at, fd, data, c, cfg) ==
    [pc |-> at, fd |-> fd, buf |-> data, cap |-> 0, cmd |-> c, config |-> cfg]

\* The bytes of the file a handle stands for.
FileOf(fd) == IF fd = Linked THEN store.bytes ELSE orphans[fd]

\* The commands under way without the command p, and with q in its place.
Resume(p) == inflight (-) SetToBag({p})

Moved(p, q) == Resume(p) (+) SetToBag({q})

\* The handles of removed files that the commands procs hold.
Held(procs) == {p.fd : p \in BagToSet(procs)} \ {NoFd, Linked}

Rank(fds, fd) == Cardinality({g \in fds : g <= fd})

\* A removed file goes when the last handle on it is closed: the removed
\* files that procs still hold, and procs with the handles counted anew.
sweep_files(procs, files) ==
    LET fds == Held(procs)
    IN  [n \in 1..Cardinality(fds) |-> files[CHOOSE g \in fds : Rank(fds, g) = n]]

counted(fds, p) == IF p.fd \in fds THEN [p EXCEPT !.fd = Rank(fds, @)] ELSE p

sweep_procs(procs) ==
    LET fds == Held(procs)
    IN  [q \in {counted(fds, p) : p \in BagToSet(procs)} |->
           BagCardinality([p \in {r \in BagToSet(procs) : counted(fds, r) = q} |->
                              procs[p]])]

\* A step with which no command returns.
Quiet ==
    /\ cmd' = NoCmd /\ config' = <<>> /\ ret' = "none" /\ stored' = FALSE
    /\ pc' = "run" /\ out' = NoReport

\* The command c, holding the list cfg, returns r without having entered
\* Config::store.
Returned(c, cfg, r) ==
    /\ cmd' = c /\ config' = cfg /\ ret' = r
    /\ stored' = FALSE /\ pc' = "done" /\ out' = NoReport

\* A command returns the error e from Config::open.
OpenFails(e) == Returned([NoCmd EXCEPT !.op = "open"], <<>>, e)

\* What a command returns when File::open or remove_file finds no file.
NotFound == "No such file or directory (os error 2)"

\* What a command returns when the bytes read are no Config.
Unreadable == "Unreadable config"

\* A command starts: main's Ics and Report arms call Config::open, which
\* tests path.exists().  No file gives Ok(None), the default Config.
open_exists ==
    /\ BagCardinality(inflight) < MaxProcs
    /\ inflight = EmptyBag \/ overlaps < MaxOverlaps
    /\ inflight' = inflight (+) SetToBag({Proc(IF store.exists THEN "open" ELSE "opened",
                                               NoFd, <<>>, NoCmd, <<>>)})
    /\ overlaps' = overlaps + (IF inflight = EmptyBag THEN 0 ELSE 1)
    /\ Quiet
    /\ UNCHANGED <<store, orphans, ical_body, text_vars>>

\* Config::open: fs::File::open(&path).await?
open_file(p) ==
    /\ p.pc = "open" /\ BagIn(p, inflight)
    /\ IF store.exists
       THEN /\ inflight' = Moved(p, [p EXCEPT !.pc = "read", !.fd = Linked])
            /\ Quiet
       ELSE /\ inflight' = Resume(p)
            /\ OpenFails(NotFound)
    /\ UNCHANGED <<store, orphans, overlaps, ical_body, text_vars>>

\* Config::open: a read of f.read_to_end(&mut buf) that finds bytes.
open_read(p) ==
    /\ p.pc = "read" /\ BagIn(p, inflight)
    /\ LET len == TextLen(p.buf)
           bytes == FileOf(p.fd)
           cap == capacity(p.cap, len)
       IN  /\ len < TextLen(bytes)
           /\ inflight' = Moved(p, [p EXCEPT !.buf = Cat(@, read_chunk(bytes, len, cap)),
                                             !.cap = cap])
    /\ Quiet
    /\ UNCHANGED <<store, orphans, overlaps, ical_body, text_vars>>

\* Config::open returns and f is dropped: rest are the commands under way
\* after the step.
open_closes(rest) ==
    /\ inflight' = sweep_procs(rest)
    /\ orphans' = sweep_files(rest, orphans)

\* Config::open: from_slice gave r, and the command p fails or goes on with
\* the list.
open_parsed(p, r) ==
    /\ open_closes(IF r.ok THEN Moved(p, Proc("opened", NoFd, <<>>, NoCmd, r.ical))
                   ELSE Resume(p))
    /\ IF r.ok THEN Quiet ELSE OpenFails(Unreadable)

\* Config::open: the read that finds no more bytes, serde_json::from_slice
\* of the bytes read, and the return; the file is closed.
open_returns(p) ==
    /\ p.pc = "read" /\ BagIn(p, inflight)
    /\ TextLen(p.buf) >= TextLen(FileOf(p.fd))
    /\ open_parsed(p, deserialized(p.buf))
    /\ UNCHANGED <<store, overlaps, ical_body, text_vars>>

\* hour-calc report -i ics_index [-m month] [-y year] -o out_format: main's
\* Report arm behind Config::open.  The command writes no file the model
\* holds.
report_run(p, ics_index, month, year, out_format, fetched, pdf_ok) ==
    /\ p.pc = "opened" /\ BagIn(p, inflight)
    /\ cmd' = [NoCmd EXCEPT !.op = "report", !.index = ics_index]
    /\ config' = p.config
    /\ out' = report(p.config, ics_index, month, year, out_format,
                     fetched, pdf_ok)
    /\ ret' = IF out'.status = "ok" THEN "Ok" ELSE out'.error
    /\ stored' = FALSE /\ pc' = "done"
    /\ inflight' = Resume(p)
    /\ UNCHANGED <<store, orphans, overlaps, ical_body, text_vars>>

\* hour-calc configure ics add name link, behind Config::open and up to
\* the call of Config::store.
ics_add(p, name, link) ==
    /\ p.pc = "opened" /\ BagIn(p, inflight)
    /\ LET c == [NoCmd EXCEPT !.op = "ics_add", !.name = name, !.link = link]
           opened == p.config
       IN  IF already_exists(opened, name)
           THEN /\ inflight' = Resume(p)
                /\ Returned(c, opened, "Already exists")
           ELSE /\ inflight' = Moved(p, Proc("create", NoFd, <<>>, c,
                                             Append(opened, ICalConfig(link, name))))
                /\ Quiet
    /\ UNCHANGED <<store, orphans, overlaps, ical_body, text_vars>>

\* hour-calc configure ics remove index, behind Config::open and up to the
\* call of Config::store.
ics_remove(p, index) ==
    /\ p.pc = "opened" /\ BagIn(p, inflight)
    /\ LET c == [NoCmd EXCEPT !.op = "ics_remove", !.index = index]
           opened == p.config
       IN  IF index >= Len(opened)
           THEN /\ inflight' = Resume(p)
                /\ Returned(c, opened, "Invalid index")
           ELSE /\ inflight' = Moved(p, Proc("create", NoFd, <<>>, c,
                                             remove_at(opened, index)))
                /\ Quiet
    /\ UNCHANGED <<store, orphans, overlaps, ical_body, text_vars>>

\* hour-calc configure ics list, behind Config::open.
ics_list(p) ==
    /\ p.pc = "opened" /\ BagIn(p, inflight)
    /\ Returned([NoCmd EXCEPT !.op = "ics_list"], p.config, "Ok")
    /\ inflight' = Resume(p)
    /\ UNCHANGED <<store, orphans, overlaps, ical_body, text_vars>>

\* Config::store of a command: fs::File::create, which empties config.json
\* or makes it anew.
store_create(p) ==
    /\ p.pc = "create" /\ BagIn(p, inflight)
    /\ store' = file_create(store)
    /\ inflight' = Moved(p, [p EXCEPT !.pc = "write", !.fd = Linked])
    /\ Quiet
    /\ UNCHANGED <<orphans, overlaps, ical_body, text_vars>>

\* Config::store of a command: f.write(&buf), and the command returns Ok.
\* The write goes to the file the command created, which config.json no
\* longer is after a clear.
store_write(p) ==
    /\ p.pc = "write" /\ BagIn(p, inflight)
    /\ LET data == serialized(p.config)
           rest == Resume(p)
           files == IF p.fd = Linked THEN orphans
                    ELSE [orphans EXCEPT ![p.fd] = file_write(@, data)]
       IN  /\ store' = IF p.fd = Linked THEN File(file_write(store.bytes, data))
                       ELSE store
           /\ inflight' = sweep_procs(rest)
           /\ orphans' = sweep_files(rest, files)
    /\ cmd' = p.cmd /\ config' = p.config
    /\ ret' = "Ok" /\ stored' = TRUE /\ pc' = "done" /\ out' = NoReport
    /\ UNCHANGED <<overlaps, ical_body, text_vars>>

\* The commands procs, those that hold config.json open holding the removed
\* file fd instead.
moved_to(fd, p) == IF p.fd = Linked THEN [p EXCEPT !.fd = fd] ELSE p

unlinked(procs, fd) ==
    [q \in {moved_to(fd, p) : p \in BagToSet(procs)} |->
        BagCardinality([p \in {r \in BagToSet(procs) : moved_to(fd, r) = q} |->
                           procs[p]])]

\* hour-calc configure clear: Config::clear.  remove_file fails when there
\* is no file; a file that commands hold open stays with them.
config_clear ==
    /\ inflight = EmptyBag \/ overlaps < MaxOverlaps
    /\ cmd' = [NoCmd EXCEPT !.op = "config_clear"]
    /\ IF store.exists
       THEN /\ store' = NoFile /\ ret' = "Ok"
            /\ IF \E p \in BagToSet(inflight) : p.fd = Linked
               THEN /\ orphans' = Append(orphans, store.bytes)
                    /\ inflight' = unlinked(inflight, Len(orphans) + 1)
               ELSE UNCHANGED <<orphans, inflight>>
       ELSE /\ ret' = NotFound
            /\ UNCHANGED <<store, orphans, inflight>>
    /\ overlaps' = overlaps + (IF inflight = EmptyBag THEN 0 ELSE 1)
    /\ config' = <<>>
    /\ stored' = FALSE /\ pc' = "done" /\ out' = NoReport
    /\ UNCHANGED <<ical_body, text_vars>>

(***************************************************************************)
(* The report command, against what the configured URL serves              *)
(***************************************************************************)
OneSource == store_file(<<ICalConfig(LinkA, Work)>>)

InitIdle ==
    /\ config = <<>> /\ cmd = NoCmd /\ ret = "none" /\ stored = FALSE
    /\ inflight = EmptyBag /\ orphans = <<>> /\ overlaps = 0 /\ pc = "idle"
    /\ out = NoReport
    /\ secs = 0 /\ formatted = NotRun
    /\ input = <<>> /\ buf = NotRun

Init == InitIdle /\ store = OneSource /\ ical_body = <<>>

\* The served file gains a calendar.
ServeCalendar ==
    /\ pc = "idle" /\ Len(ical_body) < MaxCals
    /\ ical_body' = Append(ical_body, [parsed |-> TRUE, events |-> <<>>])
    /\ UNCHANGED <<proc_vars, out, text_vars>>

\* The served file gains a calendar the parser cannot read.
ServeBroken ==
    /\ pc = "idle" /\ Len(ical_body) < MaxCals
    /\ ical_body' = Append(ical_body, [parsed |-> FALSE, events |-> <<>>])
    /\ UNCHANGED <<proc_vars, out, text_vars>>

\* The last calendar of the served file gains an event.
ServeEvent(e) ==
    /\ pc = "idle" /\ Len(ical_body) > 0
    /\ ical_body[Len(ical_body)].parsed
    /\ TotalEvents(ical_body) < MaxEvents
    /\ ical_body' = [ical_body EXCEPT ![Len(ical_body)].events = Append(@, e)]
    /\ UNCHANGED <<proc_vars, out, text_vars>>

\* The one report command starts once the served file stands.
StartReport == pc = "idle" /\ open_exists

\* The report behind Config::open; the request reaches the file or fails.
Report(ics_index, month, year, out_format, reached, pdf_ok) ==
    \E p \in BagToSet(inflight) :
        report_run(p, ics_index, month, year, out_format,
                   IF reached THEN Served(ical_body) ELSE RequestFailed, pdf_ok)

\* The command lines drawn: the table with every pair of filters, the PDF
\* without filters with a renderer that works or fails, a request that
\* fails, and an index the configuration does not have.
Next ==
    \/ ServeCalendar
    \/ ServeBroken
    \/ \E e \in RawEvents : ServeEvent(e)
    \/ StartReport
    \/ \E p \in BagToSet(inflight) : open_file(p)
    \/ \E p \in BagToSet(inflight) : open_read(p)
    \/ \E p \in BagToSet(inflight) : open_returns(p)
    \/ \E m \in MonthArgs, y \in YearArgs : Report(0, m, y, "Table", TRUE, TRUE)
    \/ \E pdf_ok \in BOOLEAN : Report(0, NoFilter, NoFilter, "Pdf", TRUE, pdf_ok)
    \/ Report(0, NoFilter, NoFilter, "Table", FALSE, TRUE)
    \/ Report(1, NoFilter, NoFilter, "Table", TRUE, TRUE)

Spec == Init /\ [][Next]_vars

(***************************************************************************)
(* The configure and report commands, from no config file: any number of   *)
(* them one after another, MaxProcs of them at a time, and MaxOverlaps of  *)
(* them started while another was under way.                               *)
(***************************************************************************)
InitConfig ==
    /\ InitIdle /\ store = NoFile
    /\ ical_body = <<[parsed |-> TRUE, events |-> <<EvWorkDay>>]>>

NextConfig ==
    \/ open_exists
    \/ \E p \in BagToSet(inflight) : open_file(p)
    \/ \E p \in BagToSet(inflight) : open_read(p)
    \/ \E p \in BagToSet(inflight) : open_returns(p)
    \/ \E p \in BagToSet(inflight), a \in AddArgs : ics_add(p, a[1], a[2])
    \/ \E p \in BagToSet(inflight), k \in 0..MaxSources : ics_remove(p, k)
    \/ \E p \in BagToSet(inflight) : ics_list(p)
    \/ \E p \in BagToSet(inflight), k \in {0, MaxSources} :
          report_run(p, k, NoFilter, NoFilter, "Table", Served(ical_body), TRUE)
    \/ \E p \in BagToSet(inflight) : store_create(p)
    \/ \E p \in BagToSet(inflight) : store_write(p)
    \/ config_clear

SpecConfig == InitConfig /\ [][NextConfig]_vars

(***************************************************************************)
(* fmt_duration and hypentate_dttime applied to drawn arguments            *)
(***************************************************************************)
InitFmt ==
    /\ store = NoFile /\ config = <<>> /\ cmd = NoCmd /\ ret = "none" /\ stored = FALSE
    /\ inflight = EmptyBag /\ orphans = <<>> /\ overlaps = 0 /\ pc = "idle"
    /\ ical_body = <<>> /\ out = NoReport
    /\ secs \in SecsInputs /\ formatted = NotRun
    /\ input = <<>> /\ buf = NotRun

Format ==
    /\ formatted = NotRun
    /\ formatted' = fmt_duration(secs)
    /\ UNCHANGED <<proc_vars, ical_body, out, secs, input, buf>>

SpecFmt == InitFmt /\ [][Format]_vars

InitNorm ==
    /\ store = NoFile /\ config = <<>> /\ cmd = NoCmd /\ ret = "none" /\ stored = FALSE
    /\ inflight = EmptyBag /\ orphans = <<>> /\ overlaps = 0 /\ pc = "idle"
    /\ ical_body = <<>> /\ out = NoReport
    /\ secs = 0 /\ formatted = NotRun
    /\ input \in TokenInputs /\ buf = NotRun

Normalize ==
    /\ buf = NotRun
    /\ buf' = hypentate_dttime(input)
    /\ UNCHANGED <<proc_vars, ical_body, out, secs, formatted, input>>

SpecNorm == InitNorm /\ [][Normalize]_vars

(***************************************************************************)
(* What the properties below speak about, stated on the served file        *)
(* itself rather than through the pipeline's own definitions.              *)
(***************************************************************************)
\* Every event of the served file, calendar after calendar.
RECURSIVE EventsUpTo(_, _)
EventsUpTo(body, c) ==
    IF c = 0 THEN <<>> ELSE EventsUpTo(body, c - 1) \o body[c].events

AllEvents(body) == EventsUpTo(body, Len(body))

AllParsed(body) == \A c \in 1..Len(body) : body[c].parsed

\* The marker n of an event is missing: the event has no property n, or its
\* property n carries no value.
Lacks(event, n) ==
    \/ \A i \in 1..Len(event) : event[i].name # n
    \/ \E i \in 1..Len(event) :
          /\ event[i].name = n
          /\ \A j \in 1..(i - 1) : event[j].name # n
          /\ ~event[i].value.some

HasBoth(event) == ~Lacks(event, "DTSTART") /\ ~Lacks(event, "DTEND")

TokenOf(event, n) ==
    event[CHOOSE i \in 1..Len(event) :
              event[i].name = n /\ \A j \in 1..(i - 1) : event[j].name # n].value.text

InstantOf(event, n) == parse_from_rfc3339(hypentate_dttime(TokenOf(event, n)))

Unparseable(event, n) == ~Lacks(event, n) /\ ~InstantOf(event, n).ok

\* The served file without the events that lack a marker.
WithoutLacking(body) ==
    [c \in 1..Len(body) |->
        [parsed |-> body[c].parsed, events |-> SelectSeq(body[c].events, HasBoth)]]

\* The events with both markers, in the order of the served file.
Usable(body) == SelectSeq(AllEvents(body), HasBoth)

Ran == out.status # "none" /\ out.downloaded

\* The report run again on another served file: the same command line, the
\* same configuration, the same luck with the PDF renderer.
Rerun(body) ==
    report(config, cmd.index, out.month, out.year,
           IF out.rendered = "pdf" \/ out.error = "pdf" THEN "Pdf" ELSE "Table",
           Served(body), out.error # "pdf")

(***************************************************************************)
(* C1: every summary's date label is the single date DD-MM-YYYY exactly    *)
(* when start and end are on the same calendar day (same year, month and   *)
(* day), and the range "DD-MM-YYYY - DD-MM-YYYY" otherwise, also when the  *)
(* two days share only their day-of-month number.                          *)
(* The code compares the day-of-month alone: an event from 05-02-2021 to   *)
(* 05-03-2021 is labelled "05-02-2021".                                    *)
(***************************************************************************)
C1_DateLabelByCalendarDay ==
    out.status = "ok" =>
        LET src == Usable(ical_body)
        IN  /\ Len(out.flat) = Len(src)
            /\ \A i \in 1..Len(src) :
                  LET st == InstantOf(src[i], "DTSTART")
                      en == InstantOf(src[i], "DTEND")
                  IN  out.flat[i].date =
                        IF st.year = en.year /\ st.month = en.month /\ st.day = en.day
                        THEN DateText(st)
                        ELSE DateText(st) \o <<" ", "-", " ">> \o DateText(en)

(***************************************************************************)
(* C2: an event whose DTSTART or DTEND is absent or carries no value is    *)
(* dropped and the report still completes: the report of the served file   *)
(* is the report of the file without those events, it succeeds whenever    *)
(* every calendar was read, every event with both markers parses and the   *)
(* renderer does not fail, and its flat sequence has one entry per event   *)
(* with both markers.                                                      *)
(***************************************************************************)
C2_MissingMarkerDropsEvent ==
    Ran =>
        /\ out = Rerun(WithoutLacking(ical_body))
        /\ (/\ AllParsed(ical_body)
            /\ \A i \in 1..Len(Usable(ical_body)) :
                  /\ InstantOf(Usable(ical_body)[i], "DTSTART").ok
                  /\ InstantOf(Usable(ical_body)[i], "DTEND").ok
            /\ out.error # "pdf")
              => out.status = "ok"
        /\ out.status = "ok" => Len(out.flat) = Len(Usable(ical_body))

\* A report that succeeded although an event of the file lacks a marker, and
\* that shows another event.
C2_Witness ==
    /\ out.status = "ok"
    /\ Len(out.flat) = 1
    /\ \E i \in 1..Len(AllEvents(ical_body)) : ~HasBoth(AllEvents(ical_body)[i])

(***************************************************************************)
(* C3 as stated: if any event has a present marker whose token fails to    *)
(* parse, the report aborts with an error and hands nothing to the         *)
(* renderer, whatever the state of the event's other marker.               *)
(***************************************************************************)
C3_AnyUnparseableMarkerAborts ==
    (/\ Ran
     /\ \E i \in 1..Len(AllEvents(ical_body)) :
           \/ Unparseable(AllEvents(ical_body)[i], "DTSTART")
           \/ Unparseable(AllEvents(ical_body)[i], "DTEND"))
        => /\ out.status = "err"
           /\ out.events = <<>> /\ out.flat = <<>> /\ out.rendered = "none"

(***************************************************************************)
(* C3 amended: if any event has both markers present and at least one of   *)
(* the two tokens fails to parse, the report aborts with an error and      *)
(* hands nothing to the renderer, wherever the event sits; an event with   *)
(* an unparseable marker whose other marker is missing is dropped and      *)
(* does not abort the report: with every calendar read, the report fails   *)
(* only if some event with both markers has an unparseable token.          *)
(***************************************************************************)
C3_UnparseableWithBothMarkersAborts ==
    Ran =>
        LET bad == \E i \in 1..Len(AllEvents(ical_body)) :
                      /\ HasBoth(AllEvents(ical_body)[i])
                      /\ \/ Unparseable(AllEvents(ical_body)[i], "DTSTART")
                         \/ Unparseable(AllEvents(ical_body)[i], "DTEND")
        IN  /\ bad => /\ out.status = "err"
                      /\ out.events = <<>> /\ out.flat = <<>> /\ out.rendered = "none"
            /\ (AllParsed(ical_body) /\ ~bad) => out.error # "parse"

\* The report aborted on an unparseable token in the second calendar, after
\* a first calendar whose event is fine.
C3_Witness ==
    /\ Ran /\ out.status = "err" /\ out.rendered = "none"
    /\ Len(ical_body) = 2 /\ AllParsed(ical_body)
    /\ ical_body[1].events = <<EvWorkDay>>
    /\ Len(ical_body[2].events) = 1
    /\ Unparseable(ical_body[2].events[1], "DTEND")

(***************************************************************************)
(* C4: when the report does not abort, the flat sequence holds exactly     *)
(* one summary per event with both markers, in calendar order and then     *)
(* event order; the file without the events that lack a marker gives the   *)
(* same sequence and the same total, and equal events of two calendars     *)
(* both appear.                                                            *)
(***************************************************************************)
C4_FlatIsEveryUsableEventInOrder ==
    out.status = "ok" =>
        LET src == Usable(ical_body)
            cut == Rerun(WithoutLacking(ical_body))
        IN  /\ out.flat = [i \in 1..Len(src) |->
                              EventSummary(InstantOf(src[i], "DTSTART"),
                                           InstantOf(src[i], "DTEND"))]
            /\ cut.status = "ok"
            /\ cut.flat = out.flat
            /\ cut.total = out.total

\* Two calendars carry the same event and the flat sequence shows it twice.
C4_Witness ==
    /\ out.status = "ok"
    /\ Len(ical_body) = 2
    /\ ical_body[1].events = <<EvOvernight>>
    /\ ical_body[2].events = <<EvOvernight>>
    /\ Len(out.flat) = 2 /\ out.flat[1] = out.flat[2]

(***************************************************************************)
(* C5: the retained summaries are exactly those of the flat sequence       *)
(* whose start month equals the month filter (when given) and whose start  *)
(* year equals the year filter (when given); an absent filter retains      *)
(* all, and the two filters in the other order retain the same sequence.   *)
(***************************************************************************)
C5_FiltersRetainMonthAndYear ==
    out.status = "ok" =>
        /\ out.retained =
             SelectSeq(out.flat, LAMBDA e :
                /\ out.month.some => e.month_start = out.month.val
                /\ out.year.some => e.year_start = out.year.val)
        /\ out.retained = month_filter(year_filter(out.flat, out.year), out.month)
        /\ (~out.month.some /\ ~out.year.some) => out.retained = out.flat

\* Both filters given; one of two summaries passes both, the other passes
\* the month filter only.
C5_Witness ==
    /\ out.status = "ok"
    /\ out.month = Only(1) /\ out.year = Only(2021)
    /\ Len(out.flat) = 2 /\ Len(out.retained) = 1
    /\ \A i \in 1..2 : out.flat[i].month_start = 1

(***************************************************************************)
(* C6: the final sequence is the retained sequence reordered by sort_day   *)
(* ascending, stably: the summaries of any one sort_day appear in the      *)
(* final sequence exactly as they appear, in that order, in the retained   *)
(* sequence, even when they are in different months or years.              *)
(***************************************************************************)
C6_SortByDayIsStable ==
    out.status = "ok" =>
        /\ Len(out.events) = Len(out.retained)
        /\ \A i \in 1..(Len(out.events) - 1) :
              out.events[i].date_start <= out.events[i + 1].date_start
        /\ \A d \in 1..31 :
              SelectSeq(out.events, LAMBDA e : e.date_start = d)
                = SelectSeq(out.retained, LAMBDA e : e.date_start = d)

\* A February event served before a January event of the same day-of-month
\* stays in front of it.
C6_Witness ==
    /\ out.status = "ok" /\ Len(out.events) = 2
    /\ out.events = out.retained
    /\ out.events[1].date_start = out.events[2].date_start
    /\ out.events[1].month_start = 2 /\ out.events[2].month_start = 1

(***************************************************************************)
(* C7: the three numbers fmt_duration prints are lossless:                 *)
(* HH*3600 + MM*60 + SS = s for every s, with 0 <= MM, SS <= 59 when       *)
(* s >= 0 and -59 <= MM, SS <= 0 when s < 0 (truncating division and       *)
(* remainder); the hours are not clamped.  The numbers are read back from  *)
(* the printed text.                                                       *)
(***************************************************************************)
\* The signed number written by an optional minus sign and digits.
SignedOf(t) == IF t # <<>> /\ t[1] = "-" THEN -NatOf(Tail(t)) ELSE NatOf(t)

\* The places of the colons of a text.
Colons(t) == {i \in 1..Len(t) : t[i] = ":"}

\* The numbers of a text HH:MM:SS.
ReadHMS(t) ==
    LET c1 == CHOOSE i \in Colons(t) : \A j \in Colons(t) : i <= j
        c2 == CHOOSE i \in Colons(t) : \A j \in Colons(t) : i >= j
    IN  <<SignedOf(SubSeq(t, 1, c1 - 1)),
          SignedOf(SubSeq(t, c1 + 1, c2 - 1)),
          SignedOf(SubSeq(t, c2 + 1, Len(t)))>>

C7_FmtDurationIsLossless ==
    formatted # NotRun =>
        /\ Cardinality(Colons(formatted)) = 2
        /\ LET p == ReadHMS(formatted)
           IN  /\ p[1] * 3600 + p[2] * 60 + p[3] = secs
               /\ secs >= 0 => (p[2] \in 0..59 /\ p[3] \in 0..59 /\ p[1] >= 0)
               /\ secs < 0 => (p[2] \in -59..0 /\ p[3] \in -59..0 /\ p[1] <= 0)

\* A negative duration: -3661 seconds print as -1:-1:-1.
C7_Witness ==
    /\ secs = -3661
    /\ formatted = <<"-", "1", ":", "-", "1", ":", "-", "1">>

(***************************************************************************)
(* C8: the total is the sum of duration_sec over exactly the summaries of  *)
(* the final sequence, so skipped and filtered-out events add nothing;     *)
(* with no calendar, no event or nothing retained the report succeeds      *)
(* (unless the PDF renderer itself fails),                                 *)
(* the sequence is empty, the total is 0 and prints as 00:00:00.           *)
(***************************************************************************)
RECURSIVE SumTo(_, _)
SumTo(events, n) == IF n = 0 THEN 0 ELSE SumTo(events, n - 1) + events[n].duration_sec

C8_TotalIsSumOfFinal ==
    /\ out.status = "ok" =>
          /\ out.total = SumTo(out.events, Len(out.events))
          /\ out.total =
               SumTo(SelectSeq(out.flat, LAMBDA e :
                        /\ out.month.some => e.month_start = out.month.val
                        /\ out.year.some => e.year_start = out.year.val),
                     Len(out.retained))
          /\ out.total_label = fmt_duration(out.total)
          /\ out.events = <<>> =>
                /\ out.total = 0
                /\ out.total_label = <<"0", "0", ":", "0", "0", ":", "0", "0">>
    /\ (Ran /\ AllParsed(ical_body) /\ AllEvents(ical_body) = <<>>) =>
          /\ out.events = <<>> /\ out.total = 0
          /\ out.error # "pdf" => out.status = "ok"

\* Two events served with both markers: one filtered out, one (running
\* backwards) counted.
C8_Witness ==
    /\ out.status = "ok"
    /\ Len(AllEvents(ical_body)) = 2
    /\ Len(out.flat) = 2 /\ Len(out.events) = 1
    /\ out.events[1].duration_sec < 0
    /\ out.total = -30600

(***************************************************************************)
(* C9: hypentate_dttime returns its input with a hyphen right after the    *)
(* characters at positions 3 and 5 and a colon right after the characters  *)
(* at positions 10 and 12 (counted from 0, where they exist), every        *)
(* character kept in order and nothing else inserted: taking the inserted  *)
(* separators out again gives the input; 20220921T151530Z becomes          *)
(* 2022-09-21T15:15:30Z.                                                   *)
(***************************************************************************)
\* t without the characters at the places of the set.
Without(t, places) ==
    LET keep == {i \in 1..Len(t) : i \notin places}
        nth(k) == CHOOSE i \in keep : Cardinality({j \in keep : j < i}) = k - 1
    IN  [k \in 1..Cardinality(keep) |-> t[nth(k)]]

\* Where the separators stand in the returned text, counted from 1: behind
\* the input characters 3, 5, 10 and 12, each moved by the separators before.
C9_HyphensAndColonsAtFixedPlaces ==
    buf # NotRun =>
        LET n == Len(input)
            inserted == Cardinality({k \in {3, 5, 10, 12} : k < n})
        IN  /\ Len(buf) = n + inserted
            /\ n > 3 => buf[5] = "-"
            /\ n > 5 => buf[8] = "-"
            /\ n > 10 => buf[14] = ":"
            /\ n > 12 => buf[17] = ":"
            /\ Without(buf, {5, 8, 14, 17}) = input
            /\ input = Tok_20220921T151530Z => buf = Txt_2022_09_21T15_15_30Z

C9_Witness ==
    /\ input = Tok_20220921T151530Z
    /\ buf = Txt_2022_09_21T15_15_30Z

(***************************************************************************)
(* C10: from no configuration, after any sequence of commands run one      *)
(* after another the names of the configured sources are pairwise          *)
(* distinct, in the file and in the list of the command; ics_add with a    *)
(* name already in the list it opened returns "Already exists", leaves     *)
(* the list as it was and does not write the store (it never enters        *)
(* Config::store); otherwise it appends the new source at the end of the   *)
(* list and goes on to store that list, which the file holds when the      *)
(* command returns (a list that to_vec_pretty writes with more than        *)
(* MaxBufSize bytes excepted: one write call does not take them).          *)
(***************************************************************************)
DistinctNames(ical) ==
    \A i, j \in 1..Len(ical) : ical[i].name = ical[j].name => i = j

\* The file holds the list and nothing else.
Holds(file, ical) ==
    /\ file.exists
    /\ deserialized(file.bytes) = [ok |-> TRUE, ical |-> ical]

\* The one write call of Config::store takes the whole list.
OneWrite(ical) == TextLen(serialized(ical)) <= MaxBufSize

\* The step with which a command op returns without having entered
\* Config::store.
Refused(op) == cmd'.op = op /\ ~stored'

\* The step with which a command op returns from Config::store.
Returns(op) == cmd'.op = op /\ stored' /\ ret' = "Ok"

\* In the step, the command p, back from Config::open, goes on to
\* Config::store as q, the other commands staying as they are.
GoesToStore(p, q) ==
    /\ p.pc = "opened" /\ q.pc = "create"
    /\ inflight' = (inflight (-) SetToBag({p})) (+) SetToBag({q})

\* In the step, the command p returns and the others stay as they are, the
\* handles they hold on removed files counted anew when p closed one.
Leaves(p) == inflight' = sweep_procs(inflight (-) SetToBag({p}))

\* The commands so far ran one after another.
serial == overlaps = 0

SerialNames ==
    serial =>
        /\ DistinctNames(config)
        /\ \A p \in BagToSet(inflight) : DistinctNames(p.config)
        /\ store.exists =>
              LET r == from_slice(store.bytes) IN r.ok => DistinctNames(r.ical)

Named(ical, name) == \E k \in 1..Len(ical) : ical[k].name = name

AddEffect ==
    /\ Refused("ics_add") =>
          \E p \in BagToSet(inflight) :
              /\ p.pc = "opened" /\ Leaves(p)
              /\ Named(p.config, cmd'.name)
              /\ ret' = "Already exists"
              /\ config' = p.config
              /\ store' = store /\ orphans' = orphans
    /\ \A p \in BagToSet(inflight), q \in BagToSet(inflight') :
          (GoesToStore(p, q) /\ q.cmd.op = "ics_add") =>
              /\ ~Named(p.config, q.cmd.name)
              /\ q.config = p.config \o <<[url |-> q.cmd.link, name |-> q.cmd.name]>>
              /\ store' = store /\ orphans' = orphans
    /\ Returns("ics_add") =>
          /\ Len(config') > 0
          /\ config'[Len(config')] = [url |-> cmd'.link, name |-> cmd'.name]
          /\ (serial /\ OneWrite(config')) => Holds(store', config')

C10_NamesStayDistinct == []SerialNames /\ [][AddEffect]_vars

\* An ics_add refused for its name, with two sources configured: the
\* name, which the file holds with an escape in it, is that of the second.
C10_Witness ==
    /\ cmd.op = "ics_add" /\ ret = "Already exists" /\ ~stored /\ serial
    /\ Len(config) = 2
    /\ cmd.name = Cafe /\ config[1].name = Work /\ config[2].name = Cafe
    /\ Holds(store, config)

(***************************************************************************)
(* C11: a command given an index that is not smaller than the number of    *)
(* sources of the configuration it opened fails with "Invalid index" and   *)
(* changes nothing: ics_remove leaves the list as it was and does not      *)
(* write the store, report fails before any download or output.            *)
(* ics_remove with a valid index removes exactly that entry, keeps the     *)
(* others in their order, and goes on to store the resulting list: that    *)
(* list is what its Config::store writes, and the file holds it when the   *)
(* command returns, config.json being at the write the file the command    *)
(* created and still empty, and one write call taking the list.            *)
(***************************************************************************)
RemoveEffect ==
    /\ Refused("ics_remove") =>
          \E p \in BagToSet(inflight) :
              /\ p.pc = "opened" /\ Leaves(p)
              /\ cmd'.index >= Len(p.config)
              /\ ret' = "Invalid index"
              /\ config' = p.config
              /\ store' = store /\ orphans' = orphans
    /\ \A p \in BagToSet(inflight), q \in BagToSet(inflight') :
          (GoesToStore(p, q) /\ q.cmd.op = "ics_remove") =>
              LET k == q.cmd.index + 1
              IN  /\ q.cmd.index < Len(p.config)
                  /\ Len(q.config) = Len(p.config) - 1
                  /\ \A n \in 1..Len(q.config) :
                        q.config[n] = IF n < k THEN p.config[n] ELSE p.config[n + 1]
                  /\ store' = store /\ orphans' = orphans
    /\ Returns("ics_remove") =>
          \E p \in BagToSet(inflight) :
              /\ p.pc = "write" /\ Leaves(p)
              /\ p.cmd = cmd' /\ p.config = config'
              /\ (p.fd = Linked /\ store.bytes = <<>> /\ OneWrite(config')) =>
                    Holds(store', config')

ReportIndexEffect ==
    cmd'.op = "report" =>
        \E p \in BagToSet(inflight) :
            /\ p.pc = "opened" /\ Leaves(p)
            /\ store' = store /\ orphans' = orphans /\ ~stored'
            /\ cmd'.index >= Len(p.config) =>
                  /\ ret' = "Invalid index"
                  /\ out'.status = "err" /\ out'.error = "Invalid index"
                  /\ ~out'.downloaded /\ out'.rendered = "none"
                  /\ out'.events = <<>>
            /\ cmd'.index < Len(p.config) =>
                  (out'.downloaded \/ out'.error = "request")

====
